---- MODULE Spec2Model ----
(***************************************************************************)
(* wtf-server (src/wtf_server.py): the acronym table, the PopulateDB       *)
(* command that fills it from an acronyms file, and the two XML-RPC        *)
(* procedures wtf_is (translate) and list (list_all) that read it.         *)
(*                                                                         *)
(* Text is modelled as sequences of one-character strings, so that         *)
(* str.upper(), the regular expression and SQL's ORDER BY are computed     *)
(* character by character.                                                 *)
(***************************************************************************)
EXTENDS Integers, Sequences, FiniteSets, TLC

\* ------------------------------------------------------------------ bounds
MaxLines == 2      \* lines in one acronyms file
MaxBody == 3       \* characters of a line before its line terminator (SpecParse)
MaxStore == 2      \* a new PopulateDB run starts only below this many rows

Loaders == {1, 2}            \* PopulateDB processes
NewLine == "\n"
BodyChars == {"A", "a", "B", " ", "\t", "$"}

\* ------------------------------------------------------------ text helpers
RECURSIVE SeqsUpTo(_, _)
SeqsUpTo(S, n) ==
    IF n = 0 THEN {<<>>}
    ELSE LET shorter == SeqsUpTo(S, n - 1)
         IN  shorter \cup {Append(s, c) : s \in {t \in shorter : Len(t) = n - 1}, c \in S}

\* str.upper() / str.lower() on one character (ASCII letters of the model)
UpperChar(c) ==
    CASE c = "a" -> "A"
      [] c = "b" -> "B"
      [] OTHER   -> c

LowerChar(c) ==
    CASE c = "A" -> "a"
      [] c = "B" -> "b"
      [] OTHER   -> c

NoUpper(s) == s

\* acronym.upper()
Upper(s) == [i \in 1..Len(s) |-> UpperChar(s[i])]

Lower(s) == [i \in 1..Len(s) |-> LowerChar(s[i])]

\* ASCII code of a character: the order of SQLite's BINARY collation
Ord(c) ==
    CASE c = "\t" -> 9
      [] c = "\n" -> 10
      [] c = " "  -> 32
      [] c = "$"  -> 36
      [] c = "A"  -> 65
      [] c = "B"  -> 66
      [] c = "a"  -> 97
      [] c = "b"  -> 98
      [] OTHER    -> 127

RECURSIVE Less(_, _)
Less(s, t) ==
    IF t = <<>> THEN FALSE
    ELSE IF s = <<>> THEN TRUE
    ELSE IF Ord(Head(s)) # Ord(Head(t)) THEN Ord(Head(s)) < Ord(Head(t))
    ELSE Less(Tail(s), Tail(t))

\* ------------------------------------------- _re_acronyms_syntax.match(line)
\* ^(?P<acronym>[^\$ \t]+) *\t*(?P<translation>.+)$
NoMatch == [acronym |-> <<>>, translation |-> <<>>]       \* rv is None

AcronymChar(c) == c \notin {"$", " ", "\t"}               \* [^\$ \t]

\* `$` matches at the end of the string or before a final newline
EndOf(line) ==
    IF Len(line) > 0 /\ line[Len(line)] = NewLine THEN Len(line) - 1 ELSE Len(line)

\* (i, j, k): i acronym characters, then j spaces, then k tabs, then `.+` up to `$`
MatchSplits(line) ==
    {c \in [i : 1..Len(line), j : 0..Len(line), k : 0..Len(line)] :
        /\ c.i + c.j + c.k + 1 <= EndOf(line)
        /\ \A q \in 1..c.i : AcronymChar(line[q])
        /\ \A q \in (c.i + 1)..(c.i + c.j) : line[q] = " "
        /\ \A q \in (c.i + c.j + 1)..(c.i + c.j + c.k) : line[q] = "\t"
        /\ \A q \in (c.i + c.j + c.k + 1)..EndOf(line) : line[q] # NewLine}

\* the order in which the backtracking matcher tries the splits: greedy quantifiers,
\* the leftmost one given up last
Preferred(c, d) ==
    \/ c.i > d.i
    \/ c.i = d.i /\ c.j > d.j
    \/ c.i = d.i /\ c.j = d.j /\ c.k >= d.k

Match(line) ==
    IF MatchSplits(line) = {} THEN NoMatch
    ELSE LET c == CHOOSE c \in MatchSplits(line) : \A d \in MatchSplits(line) : Preferred(c, d)
         IN  [acronym     |-> SubSeq(line, 1, c.i),
              translation |-> SubSeq(line, c.i + c.j + c.k + 1, EndOf(line))]

\* ------------------------------------------------------------------- inputs
Line(body) == body \o <<NewLine>>

\* lines of the acronyms files given to PopulateDB
InputLines ==
    { Line(<<"A", "\t", "a">>),      \* A    a
      Line(<<"a", "\t", "a">>),      \* the same entry, acronym in lower case
      Line(<<"A", " ", "B">>),       \* a second translation of A
      <<"B", "\t", "a">>,            \* another acronym, on a last line without newline
      <<NewLine>> }                  \* a blank line

\* lines of the files given to two concurrent runs
ConcLines == {Line(<<"A", "\t", "a">>), Line(<<"a", "\t", "a">>), Line(<<"A", " ", "B">>), <<NewLine>>}

\* every line of at most MaxBody characters, with or without its line terminator
ParseLines ==
    SeqsUpTo(BodyChars, MaxBody) \cup {Line(body) : body \in SeqsUpTo(BodyChars, MaxBody)}

\* what the path given with --file names
PathKinds == {"missing", "dir", "file"}

\* arguments of wtf_is
QueryAcronyms == {<<"A">>, <<"a">>}

\* -------------------------------------------------------------------- state
VARIABLES
    store,      \* committed rows of table wtf, in id order
    schema,     \* TRUE once the table exists (db.create_all)
    autoflush,  \* the session option of db = SQLAlchemy(): a query first flushes the
                \* session's pending rows. The installed Flask-SQLAlchemy fixes it and
                \* the source does not, so both values are initial states.
    pc,         \* pc[l]: where PopulateDB.run of process l stands
    path,       \* path[l]: kind of the path given as acronyms_file
    file,       \* file[l]: the lines the for loop has read from the file so far
    rv,         \* rv[l]: the match of the current line (groupdict), NoMatch for None
    exists,     \* exists[l]: the flag of lines 55-58
    pending,    \* pending[l]: rows added to db.session and not yet committed
    rpc         \* the last XML-RPC call and what it returned

vars == <<store, schema, autoflush, pc, path, file, rv, exists, pending, rpc>>

loaderVars == <<pc, path, file, rv, exists, pending>>

Terminal == {"exit_invalid", "crashed", "failed", "done"}

NoCall == [proc |-> "none", arg |-> <<>>, failed |-> FALSE, raised |-> FALSE, value |-> <<>>]

Init ==
    /\ store = <<>>
    /\ schema = FALSE
    /\ autoflush \in BOOLEAN
    /\ pc = [l \in Loaders |-> "idle"]
    /\ path = [l \in Loaders |-> "missing"]
    /\ file = [l \in Loaders |-> <<>>]
    /\ rv = [l \in Loaders |-> NoMatch]
    /\ exists = [l \in Loaders |-> FALSE]
    /\ pending = [l \in Loaders |-> <<>>]
    /\ rpc = NoCall

\* ---------------------------------------------------------------- the model
\* WTF.__init__
WTF(m) == [acronym |-> Upper(m.acronym), translation |-> m.translation]

\* the rows a SELECT of process l's session sees
Visible(l) == IF autoflush THEN store \o pending[l] ELSE store

\* Query.filter_by(acronym=...).all()
FilterBy(rows, acronym) == SelectSeq(rows, LAMBDA r : r.acronym = acronym)

\* the key of the duplicate check: filter_by(acronym=rv['acronym'])
CheckKey(m) == m.acronym

NeverExists(results, translation) == FALSE

AnyResult(results, translation) == results # <<>>

\* lines 55-58
Exists(results, translation) ==
    \E i \in 1..Len(results) : results[i].translation = translation

\* line 45: the condition under which run() exits with 'Invalid acronym file'
PathExists(kind) == kind \in {"dir", "file"}          \* os.path.exists
IsFile(kind) == kind = "file"                         \* os.path.isfile
Invalid(kind) == ~PathExists(kind) /\ ~IsFile(kind)

KeepSession(session) == session

\* db.session.rollback()
Rollback(session) == <<>>

\* ------------------------------------------------------- PopulateDB.run
\* the command is started on a path
Begin(l, kind) ==
    /\ pc' = [pc EXCEPT ![l] = "validate"]
    /\ path' = [path EXCEPT ![l] = kind]
    /\ file' = [file EXCEPT ![l] = <<>>]
    /\ rv' = [rv EXCEPT ![l] = NoMatch]
    /\ exists' = [exists EXCEPT ![l] = FALSE]
    /\ pending' = [pending EXCEPT ![l] = <<>>]
    /\ UNCHANGED <<store, schema, autoflush, rpc>>

Start(l) ==
    /\ pc[l] \in {"idle"} \cup Terminal
    /\ Len(store) < MaxStore
    /\ \E kind \in PathKinds : Begin(l, kind)

\* a process that runs once
StartOnce(l) ==
    /\ pc[l] = "idle"
    /\ \E kind \in PathKinds : Begin(l, kind)

\* lines 45-46
Validate(l) ==
    /\ pc[l] = "validate"
    /\ pc' = [pc EXCEPT ![l] = IF Invalid(path[l]) THEN "exit_invalid" ELSE "create_all"]
    /\ UNCHANGED <<store, schema, autoflush, path, file, rv, exists, pending, rpc>>

\* line 47
CreateAll(l) ==
    /\ pc[l] = "create_all"
    /\ schema' = TRUE
    /\ pc' = [pc EXCEPT ![l] = "open"]
    /\ UNCHANGED <<store, autoflush, path, file, rv, exists, pending, rpc>>

\* line 48: open() raises IOError on anything but a readable file, outside the try
Open(l) ==
    /\ pc[l] = "open"
    /\ pc' = [pc EXCEPT ![l] = IF IsFile(path[l]) THEN "loop" ELSE "crashed"]
    /\ UNCHANGED <<store, schema, autoflush, path, file, rv, exists, pending, rpc>>

\* the line the loop is at
Current(l) == file[l][Len(file[l])]

\* a file has a further line only after a line terminator
MoreLines(l, n) ==
    /\ Len(file[l]) < n
    /\ file[l] # <<>> => Current(l)[Len(Current(l))] = NewLine

\* lines 50-51: the next line, one of `lines`, is read and matched
NextLine(l, lines, n) ==
    /\ pc[l] = "loop"
    /\ MoreLines(l, n)
    /\ \E ln \in lines :
          /\ file' = [file EXCEPT ![l] = Append(file[l], ln)]
          /\ rv' = [rv EXCEPT ![l] = Match(ln)]
    /\ pc' = [pc EXCEPT ![l] = "matched"]
    /\ UNCHANGED <<store, schema, autoflush, path, exists, pending, rpc>>

\* line 50 at the end of the file: the else clause of the try is reached
EndOfFile(l) ==
    /\ pc[l] = "loop"
    /\ pc' = [pc EXCEPT ![l] = "commit"]
    /\ UNCHANGED <<store, schema, autoflush, path, file, rv, exists, pending, rpc>>

\* line 52, rv is None: the line is skipped
Skip(l) ==
    /\ pc[l] = "matched"
    /\ rv[l] = NoMatch
    /\ pc' = [pc EXCEPT ![l] = "loop"]
    /\ UNCHANGED <<store, schema, autoflush, path, file, rv, exists, pending, rpc>>

\* lines 54-58: the duplicate check
Check(l) ==
    /\ pc[l] = "matched"
    /\ rv[l] # NoMatch
    /\ exists' = [exists EXCEPT ![l] =
                    Exists(FilterBy(Visible(l), CheckKey(rv[l])), rv[l].translation)]
    /\ pc' = [pc EXCEPT ![l] = "add"]
    /\ UNCHANGED <<store, schema, autoflush, path, file, rv, pending, rpc>>

\* line 54 raises (the flush or the SELECT fails); lines 61-63
CheckFails(l) ==
    /\ pc[l] = "matched"
    /\ rv[l] # NoMatch
    /\ pending' = [pending EXCEPT ![l] = Rollback(pending[l])]
    /\ pc' = [pc EXCEPT ![l] = "failed"]
    /\ UNCHANGED <<store, schema, autoflush, path, file, rv, exists, rpc>>

\* lines 59-60
Add(l) ==
    /\ pc[l] = "add"
    /\ pending' = [pending EXCEPT ![l] =
                     IF exists[l] THEN pending[l] ELSE Append(pending[l], WTF(rv[l]))]
    /\ pc' = [pc EXCEPT ![l] = "loop"]
    /\ UNCHANGED <<store, schema, autoflush, path, file, rv, exists, rpc>>

\* line 65
Commit(l) ==
    /\ pc[l] = "commit"
    /\ store' = store \o pending[l]
    /\ pending' = [pending EXCEPT ![l] = <<>>]
    /\ pc' = [pc EXCEPT ![l] = "done"]
    /\ UNCHANGED <<schema, autoflush, path, file, rv, exists, rpc>>

\* line 65 raises: the transaction is not committed and the exception leaves run()
CommitFails(l) ==
    /\ pc[l] = "commit"
    /\ pending' = [pending EXCEPT ![l] = <<>>]
    /\ pc' = [pc EXCEPT ![l] = "crashed"]
    /\ UNCHANGED <<store, schema, autoflush, path, file, rv, exists, rpc>>

Run(l, lines, n) ==
    \/ Validate(l)
    \/ CreateAll(l)
    \/ Open(l)
    \/ NextLine(l, lines, n)
    \/ EndOfFile(l)
    \/ Skip(l)
    \/ Check(l)
    \/ CheckFails(l)
    \/ Add(l)
    \/ Commit(l)
    \/ CommitFails(l)

\* ------------------------------------------------------------ API functions
\* WTF.query...all() of a request: raises when the table is missing or the
\* database cannot be reached
QueryRaises(fails) == ~schema \/ fails

Propagate(raised, value) == [raised |-> raised, value |-> <<>>]

\* try: ... except: results = []
Caught(raised, value) == [raised |-> FALSE, value |-> IF raised THEN <<>> ELSE value]

\* translate (wtf_is)
translate(acronym, fails) ==
    LET results == Caught(QueryRaises(fails), FilterBy(store, Upper(acronym)))
    IN  [raised |-> results.raised,
         value  |-> [i \in 1..Len(results.value) |-> results.value[i].translation]]

NoGroupBy(rows) == rows

\* GROUP BY wtf.acronym: one row of each group of rows with the same acronym
RECURSIVE GroupBy(_)
GroupBy(rows) ==
    IF rows = <<>> THEN <<>>
    ELSE LET front == SubSeq(rows, 1, Len(rows) - 1)
             last  == rows[Len(rows)]
         IN  IF \E i \in 1..Len(front) : front[i].acronym = last.acronym
             THEN GroupBy(front)
             ELSE Append(GroupBy(front), last)

\* ORDER BY wtf.acronym (ascending, BINARY collation)
RECURSIVE OrderBy(_)
OrderBy(rows) ==
    IF rows = <<>> THEN <<>>
    ELSE LET sorted == OrderBy(Tail(rows))
             before == SelectSeq(sorted, LAMBDA r : Less(r.acronym, Head(rows).acronym))
             after  == SelectSeq(sorted, LAMBDA r : ~Less(r.acronym, Head(rows).acronym))
         IN  before \o <<Head(rows)>> \o after

\* list_all (list)
list_all(fails) ==
    LET results == Caught(QueryRaises(fails), OrderBy(GroupBy(store)))
    IN  [raised |-> results.raised,
         value  |-> [i \in 1..Len(results.value) |-> results.value[i].acronym]]

Translate ==
    \E acronym \in QueryAcronyms, fails \in BOOLEAN :
        /\ rpc' = [proc   |-> "wtf_is",
                   arg    |-> acronym,
                   failed |-> QueryRaises(fails),
                   raised |-> translate(acronym, fails).raised,
                   value  |-> translate(acronym, fails).value]
        /\ UNCHANGED <<store, schema, autoflush, loaderVars>>

ListAll ==
    \E fails \in BOOLEAN :
        /\ rpc' = [proc   |-> "list",
                   arg    |-> <<>>,
                   failed |-> QueryRaises(fails),
                   raised |-> list_all(fails).raised,
                   value  |-> list_all(fails).value]
        /\ UNCHANGED <<store, schema, autoflush, loaderVars>>

\* ------------------------------------------------------------ specifications
\* one PopulateDB process at a time, and the XML-RPC server
Next ==
    \/ Start(1)
    \/ Run(1, InputLines, MaxLines)
    \/ Translate
    \/ ListAll

Spec == Init /\ [][Next]_vars

\* two PopulateDB processes on the same database, each with its own session: a
\* process sees the committed rows and its own pending ones, never another's
NextConc ==
    \/ \E l \in Loaders : StartOnce(l)
    \/ \E l \in Loaders : Run(l, ConcLines, MaxLines)

SpecConc == Init /\ [][NextConc]_vars

\* one run on one line
NextParse ==
    \/ StartOnce(1)
    \/ Run(1, ParseLines, 1)
    \/ Translate
    \/ ListAll

SpecParse == Init /\ [][NextParse]_vars

\* ------------------------------------------------------------------ claims
Rows(rows) == {rows[i] : i \in 1..Len(rows)}

Elems(seq) == {seq[i] : i \in 1..Len(seq)}

\* the lines a finished or running process has read and the loader matched
Matched(l) == {Match(file[l][k]) : k \in 1..Len(file[l])} \ {NoMatch}

\* C1: after PopulateDB runs that never overlap, started on an empty table, no two
\* rows have the same (acronym, translation) pair. Stated for a session that
\* flushes before it queries, so that the duplicate check sees the rows of the
\* file being loaded.
C1_NoDuplicatePairs ==
    autoflush => \A i, j \in 1..Len(store) : i # j => store[i] # store[j]

\* C2: the duplicate check is made against the upper-case acronym: when the loop
\* reaches the insert, exists tells whether a row with the normalised acronym and
\* the line's translation is visible, so (a, t) after (A, t) is seen as a duplicate.
C2_CheckIsNormalized ==
    \A l \in Loaders :
        pc[l] = "add" =>
            (exists[l] <=> \E r \in Rows(Visible(l)) :
                              /\ r.acronym = Upper(rv[l].acronym)
                              /\ r.translation = rv[l].translation)

\* C3: wtf_is(a) and wtf_is(lower(a)) return the same list in every state of the
\* table, and every stored acronym is in upper case.
LookupAcronyms == {<<"A">>, <<"a">>, <<"B">>, <<"A", "B">>, <<"a", "B">>}

C3_CaseInsensitiveLookup ==
    /\ \A r \in Rows(store) : r.acronym = Upper(r.acronym)
    /\ \A a \in LookupAcronyms, fails \in BOOLEAN :
          translate(a, fails) = translate(Lower(a), fails)

C3_Witness ==
    /\ rpc.proc = "wtf_is"
    /\ rpc.arg = <<"a">>
    /\ rpc.value # <<>>
    /\ translate(<<"A">>, FALSE).value = rpc.value

\* C4: a storage error while a line is processed rolls the session back and ends
\* the run as failed with the table as it was, and the table changes in no step
\* of a run but its commit: after a failed run the committed rows are those of
\* before the run.
C4_LoaderAtomicity ==
    [][\A l \in Loaders :
          /\ (pc'[l] = "failed" /\ pc[l] # "failed") =>
                 (pc[l] = "matched" /\ store' = store /\ pending'[l] = <<>>)
          /\ (store' # store) =>
                 \E m \in Loaders : pc[m] = "commit" /\ pc'[m] = "done"]_vars

\* a run failed on its second line after its first line had added a new row
C4_Witness ==
    /\ pc[1] = "failed"
    /\ Len(file[1]) = 2
    /\ Match(file[1][1]) # NoMatch
    /\ WTF(Match(file[1][1])) \notin Rows(store)
    /\ pending[1] = <<>>

\* the grammar of the specification: a token free of spaces and tabs, one or more
\* spaces or tabs, and a remainder that is not empty
Separator(c) == c \in {" ", "\t"}

Body(line) == SubSeq(line, 1, EndOf(line))

\* length of the longest run of characters of body, from position `from`, that
\* are separators (sep) or are not
RunLength(body, from, sep) ==
    CHOOSE n \in 0..Len(body) :
        /\ from + n - 1 <= Len(body)
        /\ \A q \in from..(from + n - 1) : Separator(body[q]) = sep
        /\ from + n <= Len(body) => Separator(body[from + n]) # sep

GrammarParse(line) ==
    LET body  == Body(line)
        token == RunLength(body, 1, FALSE)
        seps  == RunLength(body, token + 1, TRUE)
    IN  IF token >= 1 /\ seps >= 1 /\ token + seps < Len(body)
        THEN [acronym     |-> SubSeq(body, 1, token),
              translation |-> SubSeq(body, token + seps + 1, Len(body))]
        ELSE NoMatch

\* C5: a line yields a record exactly when it is token, separators, remainder,
\* and the record is (token, remainder); a blank line and a line without a
\* separator yield none.
C5_ParseGrammar ==
    \A l \in Loaders : pc[l] = "matched" => rv[l] = GrammarParse(Current(l))

\* C6: a run whose path is missing or is not a regular file ends before any
\* storage operation: it never gets to db.create_all() or beyond.
C6_ValidationPrecedesStorage ==
    \A l \in Loaders :
        ~IsFile(path[l]) => pc[l] \in {"idle", "validate", "exit_invalid"}

\* C7: wtf_is and list never raise, and return the empty list when their query
\* fails.
C7_SoftFailure ==
    rpc.proc # "none" => ~rpc.raised /\ (rpc.failed => rpc.value = <<>>)

\* wtf_is failed on an acronym that has rows
C7_Witness ==
    /\ rpc.proc = "wtf_is"
    /\ rpc.failed
    /\ schema
    /\ FilterBy(store, Upper(rpc.arg)) # <<>>
    /\ rpc.value = <<>>

\* C8: list() returns the acronyms that have a row, each once, in ascending order.
Ascending(v) == \A i, j \in 1..Len(v) : i < j => Less(v[i], v[j])

C8_ListSortedDistinct ==
    /\ schema =>
          /\ Ascending(list_all(FALSE).value)
          /\ Elems(list_all(FALSE).value) = {r.acronym : r \in Rows(store)}
    /\ rpc.proc = "list" => Ascending(rpc.value)

\* rows stored for B, A, A are listed as A, B
C8_Witness ==
    /\ Len(store) = 3
    /\ store[1].acronym = <<"B">>
    /\ store[2].acronym = <<"A">>
    /\ store[3].acronym = <<"A">>
    /\ rpc.proc = "list"
    /\ rpc.value = <<<<"A">>, <<"B">>>>

PairVisible(l) ==
    \E r \in Rows(Visible(l)) :
        r.acronym = CheckKey(rv[l]) /\ r.translation = rv[l].translation

\* C10: the duplicate check and the insert are separate steps and nothing locks
\* the table between them: a process stands at the insert with a negative check
\* for a pair that is visible only when another process has committed since the
\* check; no step of the process itself, and so no run that is alone, does that.
C10_StaleCheckNeedsRace ==
    [][\A l \in Loaders :
          (pc'[l] = "add" /\ ~exists'[l] /\ PairVisible(l)') =>
              /\ pc[l] = "add"
              /\ \/ PairVisible(l)
                 \/ \E m \in Loaders \ {l} : pc[m] = "commit" /\ pc'[m] = "done"]_vars

\* both processes loaded the one line A<tab>a, found it absent, and committed it
C10_Witness ==
    /\ autoflush
    /\ \A l \in Loaders : pc[l] = "done" /\ file[l] = <<Line(<<"A", "\t", "a">>)>>
    /\ Len(store) = 2
    /\ store[1] = store[2]

====
